---- MODULE Spec2Model ----
(***************************************************************************)
(* A model of the data-acquisition core of the Regional Population Viewer: *)
(* APIDataManager (src/src/data/api_data_manager.py), which fetches county *)
(* records from the Census TIGERweb service in batches, converts them to   *)
(* GeoJSON and caches the converted collection per region; of the start   *)
(* of the application (src/src/gui/api_loading_screen.py and               *)
(* main_application.py), which loads the states in a thread and opens the  *)
(* main window or exits; and of the pure functions around them: the        *)
(* conversion of one record, hit-testing (main_application.py) and         *)
(* classification (src/src/gui/chloropleth_generator.py), each called on   *)
(* arguments of every shape by a specification of its own.                 *)
(*                                                                         *)
(* Python's None is the string "None" (or the collection NoneData), a dict *)
(* is a record or a function whose DOMAIN are the keys it has, a list is a *)
(* sequence (1-based here, 0-based in the source).                         *)
(***************************************************************************)
EXTENDS Integers, Sequences, FiniteSets, TLC

VARIABLES
    states_data,          \* self.states_data
    counties_data,        \* self.counties_data
    counties_by_region,   \* self._counties_by_region
    current_region,       \* self._current_region
    next_oid,             \* identity of the next collection object created
    calls,                \* number of load calls started so far
    th,                   \* per thread: the frame of the call it is running
    gui,                  \* the loading manager's flags and the root window
    pf                    \* the call of a pure function: arguments and result

vars == <<states_data, counties_data, counties_by_region, current_region,
          next_oid, calls, th, gui, pf>>

----------------------------------------------------------------------------
(* Bounds of the model *)

\* load calls started on one manager
MaxCalls == 2
\* the largest record count the count query answers
MaxTotal == 320
\* states the service returns to load_states_data (sequential runs)
MaxStates == 5
\* states the service returns to load_states_data (concurrent runs)
MaxConcStates == 3

(* Program constants *)

batch_size == 150
max_retries == 3

Threads == {"t1", "t2"}
MainThread == "t1"

Min(a, b) == IF a < b THEN a ELSE b

----------------------------------------------------------------------------
(* Static tables: src/src/data/data_manager.py *)

REGIONS ==
    [West |-> {"Washington", "Montana", "Idaho", "Oregon", "Wyoming",
               "California", "Nevada", "Utah", "Colorado", "Alaska", "Hawaii"},
     Midwest |-> {"North Dakota", "South Dakota", "Nebraska", "Kansas",
                  "Minnesota", "Iowa", "Missouri", "Wisconsin", "Illinois",
                  "Indiana", "Michigan", "Ohio"},
     Northeast |-> {"Pennsylvania", "Maryland", "Delaware", "New Jersey",
                    "Connecticut", "Rhode Island", "Massachusetts", "New York",
                    "Vermont", "New Hampshire", "Maine"},
     Southeast |-> {"District of Columbia", "Virginia", "West Virginia",
                    "Kentucky", "Arkansas", "Louisiana", "Mississippi",
                    "Alabama", "Georgia", "Florida", "South Carolina",
                    "North Carolina", "Tennessee"},
     Southwest |-> {"Oklahoma", "Texas", "New Mexico", "Arizona"}]

\* get_states_in_region: REGIONS.get(region, set())
get_states_in_region(region) ==
    IF region \in DOMAIN REGIONS THEN REGIONS[region] ELSE {}

\* The region arguments the callers of the model pass: two regions with
\* states among those served, one without, and a name REGIONS does not have.
RegionArgs == {"Southwest", "West", "Midwest", "Atlantis"}

----------------------------------------------------------------------------
(* dict.get(key, default) *)

Get(d, key, default) == IF key \in DOMAIN d THEN d[key] ELSE default

(* _web_mercator_to_latlon: Web Mercator metres to degrees.  The model     *)
(* works on a grid of sample coordinates; the result is in microdegrees,   *)
(* rounded, computed with the source's formula                             *)
(*   lon = (x / R) * (180 / pi)                                            *)
(*   lat = (2 * atan(exp(y / R)) - pi / 2) * (180 / pi),  R = 6378137.     *)
LonE6(x) ==
    CASE x = 0 -> 0
      [] x = -12245143 -> -109999991
      [] x = -11131949 -> -99999999
      [] x = -10018754 -> -89999998
      [] x = 1113195 -> 10000001

LatE6(y) ==
    CASE y = 0 -> 0
      [] y = 2273031 -> 20000001
      [] y = 3503550 -> 30000001
      [] y = 4865942 -> 39999998
      [] y = 6446276 -> 50000001

web_mercator_to_latlon(x, y) == <<LonE6(x), LatE6(y)>>

(* None where a dict is expected, and None where a number is expected (no  *)
(* population is negative)                                                 *)
NoneDict == [none |-> TRUE]
NoneNumber == 0 - 1

\* "not d" for a dict or None, "not str" for a str or None
FalsyDict(d) == d = NoneDict \/ DOMAIN d = {}
FalsyStr(str) == str = "" \/ str = "None"

\* line 421, "for x, y in ring": some point of some ring is not a pair
UnpackFails(rings) ==
    \E k \in 1..Len(rings) : \E j \in 1..Len(rings[k]) : Len(rings[k][j]) # 2

\* what the model returns for a call that raises
Raised(exception) == [type |-> exception]

\* the converter without the branch for one ring left of several
convert_arcgis_geometry_always_multi(arcgis_geometry) ==
    IF FalsyDict(arcgis_geometry) \/ "rings" \notin DOMAIN arcgis_geometry
    THEN [type |-> "Polygon", coordinates |-> <<>>]
    ELSE IF UnpackFails(arcgis_geometry["rings"]) THEN Raised("ValueError")
    ELSE
      LET rings == arcgis_geometry["rings"]
          converted_rings ==
              [k \in 1..Len(rings) |->
                  [j \in 1..Len(rings[k]) |->
                      web_mercator_to_latlon(rings[k][j][1], rings[k][j][2])]]
          keep == SelectSeq(converted_rings, LAMBDA ring : Len(ring) >= 4)
          polygons == [k \in 1..Len(keep) |-> <<keep[k]>>]
      IN  IF Len(converted_rings) = 1
          THEN [type |-> "Polygon", coordinates |-> converted_rings]
          ELSE [type |-> "MultiPolygon", coordinates |-> polygons]

(* _convert_arcgis_geometry_to_geojson *)
convert_arcgis_geometry_to_geojson(arcgis_geometry) ==
    IF FalsyDict(arcgis_geometry) \/ "rings" \notin DOMAIN arcgis_geometry
    THEN [type |-> "Polygon", coordinates |-> <<>>]
    ELSE IF UnpackFails(arcgis_geometry["rings"]) THEN Raised("ValueError")
    ELSE
      LET rings == arcgis_geometry["rings"]
          converted_rings ==
              [k \in 1..Len(rings) |->
                  [j \in 1..Len(rings[k]) |->
                      web_mercator_to_latlon(rings[k][j][1], rings[k][j][2])]]
          keep == SelectSeq(converted_rings, LAMBDA ring : Len(ring) >= 4)
          polygons == [k \in 1..Len(keep) |-> <<keep[k]>>]
      IN  IF Len(converted_rings) = 1
          THEN [type |-> "Polygon", coordinates |-> converted_rings]
          ELSE IF Len(polygons) = 1
               THEN [type |-> "Polygon", coordinates |-> polygons[1]]
               ELSE [type |-> "MultiPolygon", coordinates |-> polygons]

(* _convert_to_geojson for data_type 'counties': the list of features of   *)
(* the returned FeatureCollection.                                         *)
convert_counties(features) ==
    [k \in 1..Len(features) |->
        LET feature == features[k]
            attributes == Get(feature, "attributes", <<>>)
        IN  [type |-> "Feature",
             properties |-> ("NAME" :> Get(attributes, "NAME", "")) @@
                            ("STATE" :> Get(attributes, "STATE", "")) @@
                            ("POP100" :> Get(attributes, "POP100", 0)),
             geometry |-> convert_arcgis_geometry_to_geojson(
                              Get(feature, "geometry", <<>>))]]

(* us_states_abbreviations.py lines 8-70 *)
US_STATES_ABBREVIATIONS ==
    ("Alabama" :> "AL") @@ ("Alaska" :> "AK") @@ ("Arizona" :> "AZ") @@
    ("Arkansas" :> "AR") @@ ("California" :> "CA") @@ ("Colorado" :> "CO") @@
    ("Connecticut" :> "CT") @@ ("Delaware" :> "DE") @@ ("Florida" :> "FL") @@
    ("Georgia" :> "GA") @@ ("Hawaii" :> "HI") @@ ("Idaho" :> "ID") @@
    ("Illinois" :> "IL") @@ ("Indiana" :> "IN") @@ ("Iowa" :> "IA") @@
    ("Kansas" :> "KS") @@ ("Kentucky" :> "KY") @@ ("Louisiana" :> "LA") @@
    ("Maine" :> "ME") @@ ("Maryland" :> "MD") @@ ("Massachusetts" :> "MA") @@
    ("Michigan" :> "MI") @@ ("Minnesota" :> "MN") @@ ("Mississippi" :> "MS") @@
    ("Missouri" :> "MO") @@ ("Montana" :> "MT") @@ ("Nebraska" :> "NE") @@
    ("Nevada" :> "NV") @@ ("New Hampshire" :> "NH") @@ ("New Jersey" :> "NJ") @@
    ("New Mexico" :> "NM") @@ ("New York" :> "NY") @@ ("North Carolina" :> "NC") @@
    ("North Dakota" :> "ND") @@ ("Ohio" :> "OH") @@ ("Oklahoma" :> "OK") @@
    ("Oregon" :> "OR") @@ ("Pennsylvania" :> "PA") @@ ("Rhode Island" :> "RI") @@
    ("South Carolina" :> "SC") @@ ("South Dakota" :> "SD") @@ ("Tennessee" :> "TN") @@
    ("Texas" :> "TX") @@ ("Utah" :> "UT") @@ ("Vermont" :> "VT") @@
    ("Virginia" :> "VA") @@ ("Washington" :> "WA") @@ ("West Virginia" :> "WV") @@
    ("Wisconsin" :> "WI") @@ ("Wyoming" :> "WY") @@ ("District of Columbia" :> "DC") @@
    ("Puerto Rico" :> "PR") @@ ("U.S. Virgin Islands" :> "VI") @@ ("Guam" :> "GU") @@
    ("American Samoa" :> "AS") @@ ("Northern Mariana Islands" :> "MP")

\* us_states_abbreviations.py lines 75-85
get_state_abbreviation(state_name) == Get(US_STATES_ABBREVIATIONS, state_name, "")

\* state_name[:2].upper(), on the names the model uses
Prefix2Upper(state_name) ==
    CASE state_name = "" -> ""
      [] state_name = "Texas" -> "TE"
      [] state_name = "Guam" -> "GU"
      [] state_name = "Atlantis" -> "AT"

\* _get_state_abbreviation, lines 475-484.  imported: the import of line
\* 480 succeeded; when it raises, the bare except takes the first two
\* characters of the name.
get_state_abbreviation_or_prefix(state_name, imported) ==
    IF imported THEN get_state_abbreviation(state_name)
    ELSE IF FalsyStr(state_name) THEN "" ELSE Prefix2Upper(state_name)

(* _convert_to_geojson, lines 360-396: the feature made of one record, or  *)
(* the exception the geometry conversion raised, which nothing in          *)
(* _convert_to_geojson catches.                                            *)
convert_record(feature, data_type, imported) ==
    LET geometry == convert_arcgis_geometry_to_geojson(Get(feature, "geometry", <<>>))
        attributes == Get(feature, "attributes", <<>>)
        state_name == Get(attributes, "NAME", "")
        remote_abbr == Get(attributes, "STATE_ABBR", Get(attributes, "STUSPS", ""))
        state_abbr == IF FalsyStr(remote_abbr)
                      THEN get_state_abbreviation_or_prefix(state_name, imported)
                      ELSE remote_abbr
        properties ==
            IF data_type = "states"
            THEN ("NAME" :> state_name) @@ ("STATE_ABBR" :> state_abbr) @@
                 ("STUSPS" :> state_abbr) @@ ("STATE" :> Get(attributes, "STATE", ""))
            ELSE ("NAME" :> Get(attributes, "NAME", "")) @@
                 ("STATE" :> Get(attributes, "STATE", "")) @@
                 ("POP100" :> Get(attributes, "POP100", 0))
    IN  IF geometry.type = "ValueError" THEN geometry
        ELSE [type |-> "Feature", properties |-> properties, geometry |-> geometry]

(* The FeatureCollection _convert_to_geojson returns.  It is a new dict on *)
(* every call: oid is its identity.                                        *)
convert_to_geojson(features, oid) ==
    [type |-> "FeatureCollection", oid |-> oid,
     features |-> convert_counties(features)]

NoneData == [type |-> "None", oid |-> 0, features |-> <<>>]

----------------------------------------------------------------------------
(* What the service holds.  A county record as the query returns it        *)
(* (src/geometry_query_params/counties_query.py, the example response):    *)
(* attributes NAME, STATE, POP100 and a geometry of one ring.              *)

SampleRing == << <<-11131949, 3503550>>, <<-11131949, 4865942>>,
                 <<-10018754, 4865942>>, <<-10018754, 3503550>>,
                 <<-11131949, 3503550>> >>

ServiceCounty(name, fips, pop) ==
    [attributes |-> ("NAME" :> name) @@ ("STATE" :> fips) @@ ("POP100" :> pop),
     geometry |-> [rings |-> <<SampleRing>>]]

\* the features of a well-formed, non-empty answer to "STATE = '<fips>'"
StateResponseFeatures(fips) ==
    << ServiceCounty(<<fips, 1>>, fips, 100), ServiceCounty(<<fips, 2>>, fips, 200) >>

\* the features of a well-formed, non-empty answer to
\* "OBJECTID >= lo AND OBJECTID <= hi": the first and the last record of the range
BatchResponseFeatures(lo, hi) ==
    IF lo = hi THEN << ServiceCounty(<<"OBJECTID", lo>>, "00", lo) >>
    ELSE << ServiceCounty(<<"OBJECTID", lo>>, "00", lo),
            ServiceCounty(<<"OBJECTID", hi>>, "00", hi) >>

\* How one HTTP request can end: a well-formed answer with features ("ok"),
\* a well-formed answer with no error field and no features ("empty"), an
\* answer with an error field ("error"), requests.exceptions.Timeout
\* ("timeout"), any other requests.exceptions.RequestException, raised by
\* requests.get or by raise_for_status ("transport").  Any other exception
\* (an answer that is not JSON) is handled by a clause of its own that does
\* what the clause for "transport" does.
Outcomes == {"ok", "empty", "error", "timeout", "transport"}
FailureKinds == {"error", "timeout", "transport"}

\* the record counts the count query answers
TotalCounts == {0, 1, batch_size, batch_size + 1, MaxTotal}

\* The states load_states_data has stored, as converted features (NAME and
\* the FIPS code STATE are what load_counties_for_region reads).
StateFeature(name, fips) ==
    [type |-> "Feature", properties |-> ("NAME" :> name) @@ ("STATE" :> fips)]

ServedStates ==
    << StateFeature("Oklahoma", "40"), StateFeature("Texas", "48"),
       StateFeature("New Mexico", "35"), StateFeature("Arizona", "04"),
       StateFeature("Utah", "49"), StateFeature("Nevada", "32"),
       StateFeature("Idaho", "16") >>

ConcServedStates ==
    << StateFeature("Oklahoma", "40"), StateFeature("Utah", "49"),
       StateFeature("Texas", "48"), StateFeature("Nevada", "32") >>

StatesLoaded(served, n) ==
    [type |-> "FeatureCollection", oid |-> 0,
     features |-> SubSeq(served, 1, Min(n, Len(served)))]

----------------------------------------------------------------------------
(* The frame of a call: the locals of load_counties_data and of            *)
(* load_counties_for_region, the position in the function (pc), the value  *)
(* returned (ret), and a record of what the call did: the batches it       *)
(* opened (keys), the batch it is on or has just closed (cur), the batches *)
(* answered with features (ok_keys), the batches closed by an empty answer *)
(* (n_empty) or by a failure (n_failure), the requests and conversions it  *)
(* made, whether its region was in the cache when it began (was_cached),   *)
(* and whether it repeats a call that has just returned False (retry).     *)

NoBatch == [attempts |-> 0, seen |-> {}, closed |-> FALSE, last |-> "none", added |-> 0]

Frame0 ==
    [pc |-> "idle", op |-> "none", region |-> "None", ret |-> "None",
     total_records |-> 0, batch_start |-> 0, retry_count |-> 0,
     state_fips_codes |-> <<>>, i |-> 0,
     all_features |-> <<>>, successful |-> 0, failed |-> 0,
     keys |-> <<>>, cur |-> NoBatch, ok_keys |-> {},
     n_empty |-> 0, n_failure |-> 0, n_requests |-> 0, n_conversions |-> 0,
     was_cached |-> FALSE, retry |-> FALSE]

Idle(t) == th[t].pc \in {"idle", "done"}

\* the call about to begin repeats the thread's last call, which returned False
Retry(t, op, region) ==
    th[t].op = op /\ th[t].region = region /\ th[t].ret = "False"

\* the main window is open: the states were loaded and the root window lives
MainWindowOpen == gui.root = "alive" /\ gui.screen = "main"

\* the record of one more request on the current batch, ending with outcome o
Requested(f, o) ==
    LET c == IF f.cur.closed THEN NoBatch ELSE f.cur
    IN  [f EXCEPT !.n_requests = @ + 1,
                  !.cur = [c EXCEPT !.attempts = @ + 1, !.seen = @ \cup {o},
                                    !.last = o]]

\* the record of the current batch being over, with `added` records taken
Closed(f, key, added) ==
    [f EXCEPT !.cur.closed = TRUE, !.cur.added = added,
              !.ok_keys = IF f.cur.last = "ok" THEN @ \cup {key} ELSE @,
              !.n_empty = IF f.cur.last = "empty" THEN @ + 1 ELSE @,
              !.n_failure = IF f.cur.last \in FailureKinds THEN @ + 1 ELSE @]

----------------------------------------------------------------------------
(* load_counties_data: api_data_manager.py lines 76-217 *)

\* BatchEnd without the clamp to max_records
BatchEndUnclamped(batch_start, max_records) == batch_start + batch_size - 1

\* line 115: batch_end = min(batch_start + batch_size - 1, max_records)
BatchEnd(batch_start, max_records) ==
    Min(batch_start + batch_size - 1, max_records)

BatchKey(f) == <<f.batch_start, BatchEnd(f.batch_start, f.total_records)>>

\* line 146: an error answer is retried while retry_count < max_retries - 1
ErrorResponseRetries(retry_count) == retry_count < max_retries - 1

\* ExceptionRetries with the comparison off by one
ExceptionRetriesOnceMore(retry_count) == retry_count <= max_retries

\* lines 172, 179, 186: after an exception retry_count is incremented, and
\* the batch is retried while retry_count < max_retries
ExceptionRetries(retry_count) == retry_count < max_retries

\* the call begins: the locals are fresh
BeginLoadCountiesData(t) ==
    /\ MainWindowOpen
    /\ Idle(t)
    /\ calls < MaxCalls
    /\ calls' = calls + 1
    /\ th' = [th EXCEPT ![t] = [Frame0 EXCEPT !.pc = "count",
                                              !.op = "load_counties_data",
                                              !.retry = Retry(t, "load_counties_data",
                                                              "None")]]
    /\ UNCHANGED <<gui, pf, states_data, counties_data, counties_by_region,
                   current_region, next_oid>>

\* lines 86-112: the count query.  Any failure, an error answer or a count
\* of 0 raises, and the call returns False (lines 215-217).
CountRequest(t) ==
    /\ th[t].pc = "count"
    /\ \E o \in Outcomes \ {"empty"} : \E n \in TotalCounts :
         LET f == [th[t] EXCEPT !.n_requests = @ + 1]
         IN  IF o = "ok" /\ n > 0
             THEN th' = [th EXCEPT ![t] =
                            [f EXCEPT !.pc = "batch", !.total_records = n,
                                      !.batch_start = 1, !.retry_count = 0,
                                      !.keys = << <<1, BatchEnd(1, n)>> >>]]
             ELSE /\ n = 0
                  /\ th' = [th EXCEPT ![t] = [f EXCEPT !.pc = "done", !.ret = "False"]]
    /\ UNCHANGED <<gui, pf, states_data, counties_data, counties_by_region,
                   current_region, next_oid, calls>>

\* lines 114-136: the for loop moves to the next range, or ends
NextBatch(f) ==
    LET next == f.batch_start + batch_size
    IN  IF next <= f.total_records
        THEN [f EXCEPT !.batch_start = next, !.retry_count = 0,
                       !.keys = Append(@, <<next, BatchEnd(next, f.total_records)>>)]
        ELSE [f EXCEPT !.pc = "finish"]

\* EmptyResponse handled like a timeout: the batch is tried again
EmptyResponseRetried(f, key) == [f EXCEPT !.retry_count = @ + 1]

\* EmptyResponse closing the batch without counting it as failed
EmptyResponseNotCounted(f, key) == NextBatch(Closed(f, key, 0))

\* EmptyResponse counting the batch in both tallies
EmptyResponseCountedTwice(f, key) ==
    NextBatch(Closed([f EXCEPT !.failed = @ + 1, !.successful = @ + 1], key, 0))

\* lines 162-167: a well-formed answer without features
EmptyResponse(f, key) == NextBatch(Closed([f EXCEPT !.failed = @ + 1], key, 0))

\* lines 137-189: one pass of the while loop, the request ending with o
BatchAttempt(f0, o) ==
    LET f == Requested(f0, o)
        key == BatchKey(f)
        feats == BatchResponseFeatures(key[1], key[2])
    IN  CASE o = "ok" ->
               NextBatch(Closed([f EXCEPT !.all_features = @ \o feats,
                                          !.successful = @ + 1], key, Len(feats)))
          [] o = "empty" -> EmptyResponse(f, key)
          [] o = "error" ->
               IF ErrorResponseRetries(f.retry_count)
               THEN [f EXCEPT !.retry_count = @ + 1]
               ELSE NextBatch(Closed([f EXCEPT !.failed = @ + 1], key, 0))
          [] OTHER ->
               IF ExceptionRetries(f.retry_count + 1)
               THEN [f EXCEPT !.retry_count = @ + 1]
               ELSE NextBatch(Closed([f EXCEPT !.retry_count = @ + 1,
                                               !.failed = @ + 1], key, 0))

BatchRequest(t) ==
    /\ th[t].pc = "batch"
    /\ \E o \in Outcomes : th' = [th EXCEPT ![t] = BatchAttempt(th[t], o)]
    /\ UNCHANGED <<gui, pf, states_data, counties_data, counties_by_region,
                   current_region, next_oid, calls>>

\* FinishLoadCountiesData failing the call as soon as one batch failed
FinishLoadCountiesDataStrict(t) ==
    /\ th[t].pc = "finish"
    /\ IF th[t].all_features = <<>> \/ th[t].failed > 0
       THEN /\ th' = [th EXCEPT ![t].pc = "done", ![t].ret = "False"]
            /\ UNCHANGED <<counties_data, next_oid>>
       ELSE /\ counties_data' = convert_to_geojson(th[t].all_features, next_oid)
            /\ next_oid' = next_oid + 1
            /\ th' = [th EXCEPT ![t].pc = "done", ![t].ret = "True",
                                ![t].n_conversions = @ + 1]
    /\ UNCHANGED <<gui, pf, states_data, counties_by_region, current_region, calls>>

\* lines 194-217: no feature at all raises and the call returns False;
\* otherwise the features are converted and stored in self.counties_data
FinishLoadCountiesData(t) ==
    /\ th[t].pc = "finish"
    /\ IF th[t].all_features = <<>>
       THEN /\ th' = [th EXCEPT ![t].pc = "done", ![t].ret = "False"]
            /\ UNCHANGED <<counties_data, next_oid>>
       ELSE /\ counties_data' = convert_to_geojson(th[t].all_features, next_oid)
            /\ next_oid' = next_oid + 1
            /\ th' = [th EXCEPT ![t].pc = "done", ![t].ret = "True",
                                ![t].n_conversions = @ + 1]
    /\ UNCHANGED <<gui, pf, states_data, counties_by_region, current_region, calls>>

----------------------------------------------------------------------------
(* load_counties_for_region: api_data_manager.py lines 219-345 *)

\* lines 251-259: the FIPS codes of the loaded states that are in the
\* region, in states_data order, Puerto Rico and the Virgin Islands excluded
RECURSIVE FipsCodes(_, _)
FipsCodes(features, states_in_region) ==
    IF features = <<>> THEN <<>>
    ELSE LET feature == Head(features)
             fips_code == Get(feature.properties, "STATE", "")
             rest == FipsCodes(Tail(features), states_in_region)
         IN  IF /\ feature.properties["NAME"] \in states_in_region
                /\ fips_code # ""
                /\ fips_code \notin {"72", "78"}
             THEN <<fips_code>> \o rest
             ELSE rest

\* Cached never finding the region
CachedNever(region) == FALSE

\* line 234: if region in self._counties_by_region
Cached(region) == region \in DOMAIN counties_by_region

BeginLoadCountiesForRegion(t) ==
    /\ MainWindowOpen
    /\ Idle(t)
    /\ calls < MaxCalls
    /\ calls' = calls + 1
    /\ \E region \in RegionArgs :
         th' = [th EXCEPT ![t] = [Frame0 EXCEPT !.pc = "check",
                                                !.op = "load_counties_for_region",
                                                !.region = region,
                                                !.was_cached =
                                                    region \in DOMAIN counties_by_region,
                                                !.retry = Retry(t, "load_counties_for_region",
                                                                region)]]
    /\ UNCHANGED <<gui, pf, states_data, counties_data, counties_by_region,
                   current_region, next_oid>>

\* lines 232-264: the cache check.  A hit stores the cached collection in
\* self.counties_data and returns True.  A miss collects the FIPS codes of
\* the region's states; none raises, and the call returns False.
CheckCache(t) ==
    /\ th[t].pc = "check"
    /\ LET region == th[t].region
           state_fips_codes == FipsCodes(states_data.features,
                                         get_states_in_region(region))
       IN  IF Cached(region)
           THEN /\ counties_data' = counties_by_region[region]
                /\ current_region' = region
                /\ th' = [th EXCEPT ![t].pc = "done", ![t].ret = "True"]
           ELSE /\ UNCHANGED <<counties_data, current_region>>
                /\ IF state_fips_codes = <<>>
                   THEN th' = [th EXCEPT ![t].pc = "done", ![t].ret = "False"]
                   ELSE th' = [th EXCEPT ![t].pc = "state", ![t].i = 1,
                                         ![t].state_fips_codes = state_fips_codes,
                                         ![t].keys = <<state_fips_codes[1]>>]
    /\ UNCHANGED <<gui, pf, states_data, counties_by_region, next_oid, calls>>

\* line 271: the for loop moves to the next state, or ends
NextState(f) ==
    IF f.i < Len(f.state_fips_codes)
    THEN [f EXCEPT !.i = @ + 1, !.keys = Append(@, f.state_fips_codes[f.i + 1])]
    ELSE [f EXCEPT !.pc = "convert"]

\* StateAttempt with the retry loop of load_counties_data around the request
StateAttemptRetrying(f0, o) ==
    LET f == Requested(f0, o)
        fips_code == f.state_fips_codes[f.i]
        feats == StateResponseFeatures(fips_code)
    IN  IF o = "ok"
        THEN NextState(Closed([f EXCEPT !.all_features = @ \o feats,
                                        !.successful = @ + 1],
                              fips_code, Len(feats)))
        ELSE IF o \in FailureKinds /\ f.cur.attempts < max_retries
             THEN [f EXCEPT !.retry_count = @ + 1]
             ELSE NextState(Closed([f EXCEPT !.failed = @ + 1], fips_code, 0))

\* lines 287-316: the request for one state, ending with o
StateAttempt(f0, o) ==
    LET f == Requested(f0, o)
        fips_code == f.state_fips_codes[f.i]
        feats == StateResponseFeatures(fips_code)
    IN  IF o = "ok"
        THEN NextState(Closed([f EXCEPT !.all_features = @ \o feats,
                                        !.successful = @ + 1],
                              fips_code, Len(feats)))
        ELSE NextState(Closed([f EXCEPT !.failed = @ + 1], fips_code, 0))

StateRequest(t) ==
    /\ th[t].pc = "state"
    /\ \E o \in Outcomes : th' = [th EXCEPT ![t] = StateAttempt(th[t], o)]
    /\ UNCHANGED <<gui, pf, states_data, counties_data, counties_by_region,
                   current_region, next_oid, calls>>

\* ConvertRegion failing the call as soon as one state failed
ConvertRegionStrict(t) ==
    /\ th[t].pc = "convert"
    /\ IF th[t].all_features = <<>> \/ th[t].failed > 0
       THEN /\ th' = [th EXCEPT ![t].pc = "done", ![t].ret = "False"]
            /\ UNCHANGED <<counties_data, next_oid>>
       ELSE /\ counties_data' = convert_to_geojson(th[t].all_features, next_oid)
            /\ next_oid' = next_oid + 1
            /\ th' = [th EXCEPT ![t].pc = "store", ![t].n_conversions = @ + 1]
    /\ UNCHANGED <<gui, pf, states_data, counties_by_region, current_region, calls>>

\* lines 318-334: no feature at all raises and the call returns False;
\* otherwise the features are converted and stored in self.counties_data
ConvertRegion(t) ==
    /\ th[t].pc = "convert"
    /\ IF th[t].all_features = <<>>
       THEN /\ th' = [th EXCEPT ![t].pc = "done", ![t].ret = "False"]
            /\ UNCHANGED <<counties_data, next_oid>>
       ELSE /\ counties_data' = convert_to_geojson(th[t].all_features, next_oid)
            /\ next_oid' = next_oid + 1
            /\ th' = [th EXCEPT ![t].pc = "store", ![t].n_conversions = @ + 1]
    /\ UNCHANGED <<gui, pf, states_data, counties_by_region, current_region, calls>>

\* line 337: self._counties_by_region[region] = self.counties_data
CacheStore(cache, region, data) ==
    [r \in DOMAIN cache \cup {region} |-> IF r = region THEN data ELSE cache[r]]

\* lines 336-341: the collection self.counties_data holds is cached under
\* the region, and the call returns True
StoreRegion(t) ==
    /\ th[t].pc = "store"
    /\ counties_by_region' = CacheStore(counties_by_region, th[t].region, counties_data)
    /\ current_region' = th[t].region
    /\ th' = [th EXCEPT ![t].pc = "done", ![t].ret = "True"]
    /\ UNCHANGED <<gui, pf, states_data, counties_data, next_oid, calls>>

----------------------------------------------------------------------------
(* The start of the application: api_loading_screen.py lines 20-53 and     *)
(* main_application.py lines 149-188, 282-296.  The loading thread runs    *)
(* APIDataLoadingManager.load_data_async, which loads the states; the       *)
(* window polls loading_complete and opens the main window or exits.       *)

\* how the one request of load_states_data can end
StatesOutcomes == {"ok", "error", "timeout", "transport"}

\* main_application.py line 44: no chloropleth window.  An open one is
\* recorded with the region it was given and the state codes of the
\* counties get_counties_in_region gave it (chloropleth_generator.py
\* line 370): those of counties_data when it was created.
NoGenerator == [open |-> FALSE, region |-> "None", states |-> {}]

\* APIDataLoadingManager.__init__, with the loading thread not yet run and
\* the loading screen shown; main_application.py lines 43-44 and 324-329:
\* no region selected, the button disabled, and no callback scheduled
\* with root.after
GuiStart ==
    [loader_pc |-> "load", success |-> "None",
     loading_complete |-> FALSE, loading_successful |-> FALSE,
     error_message |-> "None", root |-> "alive", screen |-> "loading",
     selected_region |-> "None", button |-> "disabled",
     generator |-> NoGenerator, after_queue |-> <<>>]

\* the main window is open, the loading thread has ended
GuiMain ==
    [loader_pc |-> "end", success |-> "True",
     loading_complete |-> TRUE, loading_successful |-> TRUE,
     error_message |-> "None", root |-> "alive", screen |-> "main",
     selected_region |-> "None", button |-> "disabled",
     generator |-> NoGenerator, after_queue |-> <<>>]

\* api_data_manager.py lines 39-74 and 486-512, called at line 38 of
\* api_loading_screen.py: the one request for the states.  A failure or an
\* error answer raises, and load_states_data returns False with
\* states_data as it was.  The progress callback of line 35, a call of
\* root.after from the loading thread, can raise before the load is
\* called ("Raised"): the main loop may not be running yet.
LoadStatesData(served, n) ==
    /\ gui.root = "alive"
    /\ gui.loader_pc = "load"
    /\ \/ \E o \in StatesOutcomes :
            IF o = "ok"
            THEN /\ states_data' = StatesLoaded(served, n)
                 /\ gui' = [gui EXCEPT !.loader_pc = "result", !.success = "True"]
            ELSE /\ UNCHANGED states_data
                 /\ gui' = [gui EXCEPT !.loader_pc = "result", !.success = "False"]
       \/ /\ UNCHANGED states_data
          /\ gui' = [gui EXCEPT !.loader_pc = "result", !.success = "Raised"]
    /\ UNCHANGED <<pf, counties_data, counties_by_region, current_region,
                   next_oid, calls, th>>

\* SetLoadingResult setting loading_complete where the result belongs
SetLoadingResultSkipped ==
    /\ gui.root = "alive"
    /\ gui.loader_pc = "result"
    /\ gui' = [gui EXCEPT !.loader_pc = "finally", !.loading_complete = TRUE]
    /\ UNCHANGED <<pf, states_data, counties_data, counties_by_region,
                   current_region, next_oid, calls, th>>

\* api_loading_screen.py lines 40-51: the result is recorded
SetLoadingResult ==
    /\ gui.root = "alive"
    /\ gui.loader_pc = "result"
    /\ gui' = IF gui.success = "True"
              THEN [gui EXCEPT !.loader_pc = "finally", !.loading_successful = TRUE]
              ELSE [gui EXCEPT !.loader_pc = "finally", !.loading_successful = FALSE,
                               !.error_message =
                                   IF gui.success = "False"
                                   THEN "Failed to load data from Census APIs"
                                   ELSE "main thread is not in main loop"]
    /\ UNCHANGED <<pf, states_data, counties_data, counties_by_region,
                   current_region, next_oid, calls, th>>

\* api_loading_screen.py lines 52-53: finally
LoadingFinally ==
    /\ gui.root = "alive"
    /\ gui.loader_pc = "finally"
    /\ gui' = [gui EXCEPT !.loader_pc = "end", !.loading_complete = TRUE]
    /\ UNCHANGED <<pf, states_data, counties_data, counties_by_region,
                   current_region, next_oid, calls, th>>

\* main_application.py lines 190-200: the main window replaces the
\* loading screen
on_loading_complete(g) == [g EXCEPT !.screen = "main"]

\* main_application.py lines 282-296, with the error box closed: the
\* root window is destroyed, which ends mainloop and with it the process
\* (the loading thread is a daemon)
on_loading_error_retries(g) ==
    [g EXCEPT !.loader_pc = "load", !.loading_complete = FALSE]

on_loading_error(g) == [g EXCEPT !.root = "destroyed"]

\* main_application.py lines 179-188: the poll that finds loading_complete
\* set (one that does not only schedules the next poll)
CheckLoadingStatus ==
    /\ gui.root = "alive"
    /\ gui.screen = "loading"
    /\ gui.loading_complete
    /\ gui' = IF gui.loading_successful THEN on_loading_complete(gui)
              ELSE on_loading_error(gui)
    /\ UNCHANGED <<pf, states_data, counties_data, counties_by_region,
                   current_region, next_oid, calls, th>>

----------------------------------------------------------------------------
(* The specifications.  Init is the application as constructed: nothing is *)
(* loaded, the loading screen is shown.  InitConc is the manager as the    *)
(* main window finds it: the states are loaded, no county is.              *)

\* no pure function is being called
NoCall == [fn |-> "none"]

InitManager ==
    /\ counties_data = NoneData
    /\ counties_by_region = <<>>
    /\ current_region = "None"
    /\ next_oid = 1
    /\ calls = 0
    /\ th = [t \in Threads |-> Frame0]

Init ==
    /\ InitManager
    /\ pf = NoCall
    /\ states_data = NoneData
    /\ gui = GuiStart

InitConc ==
    /\ InitManager
    /\ pf = NoCall
    /\ states_data = StatesLoaded(ConcServedStates, MaxConcStates)
    /\ gui = GuiMain

\* the start of the application, then one caller: any sequence of load
\* calls, one after the other
Next ==
    \/ LoadStatesData(ServedStates, MaxStates)
    \/ SetLoadingResult
    \/ LoadingFinally
    \/ CheckLoadingStatus
    \/ BeginLoadCountiesData(MainThread)
    \/ CountRequest(MainThread)
    \/ BatchRequest(MainThread)
    \/ FinishLoadCountiesData(MainThread)
    \/ BeginLoadCountiesForRegion(MainThread)
    \/ CheckCache(MainThread)
    \/ StateRequest(MainThread)
    \/ ConvertRegion(MainThread)
    \/ StoreRegion(MainThread)

Spec == Init /\ [][Next]_vars

\* The start of the application, then the region loads of the main window.
\* The loading thread is started at line 160 and nothing it does waits for
\* another thread: the request has a timeout (api_data_manager.py line 58)
\* and the sleep is 0.2 s, so each of its steps is taken.  The poll is
\* rescheduled every 50 ms until it finds loading_complete set.
NextStart ==
    \/ LoadStatesData(ServedStates, MaxStates)
    \/ SetLoadingResult
    \/ LoadingFinally
    \/ CheckLoadingStatus
    \/ BeginLoadCountiesForRegion(MainThread)
    \/ CheckCache(MainThread)
    \/ StateRequest(MainThread)
    \/ ConvertRegion(MainThread)
    \/ StoreRegion(MainThread)

SpecLive ==
    /\ Init /\ [][NextStart]_vars
    /\ WF_vars(LoadStatesData(ServedStates, MaxStates))
    /\ WF_vars(SetLoadingResult)
    /\ WF_vars(LoadingFinally)
    /\ WF_vars(CheckLoadingStatus)

\* the load threads of _open_chloropleth_generator: each runs
\* load_counties_for_region, and a click on the map while one is running
\* lets the user start another
NextConc ==
    \E t \in Threads :
        \/ BeginLoadCountiesForRegion(t)
        \/ CheckCache(t)
        \/ StateRequest(t)
        \/ ConvertRegion(t)
        \/ StoreRegion(t)

SpecConc == InitConc /\ [][NextConc]_vars

----------------------------------------------------------------------------
(* The main window: main_application.py lines 760-779 and 1044-1123.  The  *)
(* user clicks regions of the map and presses the button; the button       *)
(* starts a thread that loads the counties of the selected region and      *)
(* then schedules _on_counties_loaded on the main thread.                  *)

\* the regions _find_clicked_region returns for the clicks of the model
ClickedRegions == {"Southwest", "West"}

\* the state codes of the features of a converted collection
StateCodes(data) ==
    {data.features[k].properties["STATE"] : k \in 1..Len(data.features)}

\* the main window is shown: root.withdraw() hides it while a chloropleth
\* window is open (line 1095)
MainWindowShown == MainWindowOpen /\ ~gui.generator.open

\* lines 760-779: a click on a state of a region
OnMapClick ==
    /\ MainWindowShown
    /\ \E clicked_region \in ClickedRegions :
         gui' = [gui EXCEPT !.selected_region = clicked_region,
                            !.button = "normal"]
    /\ UNCHANGED <<pf, states_data, counties_data, counties_by_region,
                   current_region, next_oid, calls, th>>

\* lines 1044-1071: the button is pressed; it is disabled and the thread
\* load_and_open is started
OpenChloroplethGenerator ==
    /\ MainWindowShown
    /\ gui.button = "normal"
    /\ gui.selected_region # "None"
    /\ calls < MaxCalls
    /\ calls' = calls + 1
    /\ \E t \in Threads :
         /\ th[t].pc \in {"idle", "ended"}
         /\ th' = [th EXCEPT ![t] = [Frame0 EXCEPT !.pc = "start"]]
    /\ gui' = [gui EXCEPT !.button = "disabled"]
    /\ UNCHANGED <<pf, states_data, counties_data, counties_by_region,
                   current_region, next_oid>>

\* lines 1060-1064: the thread reads self.selected_region and calls
\* load_counties_for_region with it
LoadAndOpen(t) ==
    /\ th[t].pc = "start"
    /\ LET region == gui.selected_region
       IN  th' = [th EXCEPT ![t] = [Frame0 EXCEPT !.pc = "check",
                                                  !.op = "load_counties_for_region",
                                                  !.region = region,
                                                  !.was_cached =
                                                      region \in DOMAIN counties_by_region]]
    /\ UNCHANGED <<gui, pf, states_data, counties_data, counties_by_region,
                   current_region, next_oid, calls>>

\* line 1067: root.after(0, lambda: self._on_counties_loaded(success)),
\* and the thread ends
ScheduleOnCountiesLoaded(t) ==
    /\ th[t].pc = "done"
    /\ gui' = [gui EXCEPT !.after_queue = Append(@, th[t].ret)]
    /\ th' = [th EXCEPT ![t].pc = "ended"]
    /\ UNCHANGED <<pf, states_data, counties_data, counties_by_region,
                   current_region, next_oid, calls>>

\* lines 1089-1103: the window is created for self.selected_region
launch_chloropleth_generator(g) ==
    [g EXCEPT !.generator = [open |-> TRUE, region |-> g.selected_region,
                             states |-> StateCodes(counties_data)]]

\* lines 1077-1087, run by the main loop for the scheduled callback
OnCountiesLoaded ==
    /\ gui.root = "alive"
    /\ gui.after_queue # <<>>
    /\ LET success == Head(gui.after_queue)
           g == [gui EXCEPT !.after_queue = Tail(@)]
       IN  gui' = IF success = "True" THEN launch_chloropleth_generator(g)
                  ELSE [g EXCEPT !.button = "normal"]
    /\ UNCHANGED <<pf, states_data, counties_data, counties_by_region,
                   current_region, next_oid, calls, th>>

\* lines 1105-1123: the chloropleth window is closed
ReturnToMain ==
    /\ gui.generator.open
    /\ gui' = [gui EXCEPT !.generator = NoGenerator,
                          !.selected_region = "None",
                          !.button = "disabled"]
    /\ UNCHANGED <<pf, states_data, counties_data, counties_by_region,
                   current_region, next_oid, calls, th>>

NextGui ==
    \/ OnMapClick
    \/ OpenChloroplethGenerator
    \/ OnCountiesLoaded
    \/ ReturnToMain
    \/ \E t \in Threads :
          \/ LoadAndOpen(t)
          \/ CheckCache(t)
          \/ StateRequest(t)
          \/ ConvertRegion(t)
          \/ StoreRegion(t)
          \/ ScheduleOnCountiesLoaded(t)

SpecGui == InitConc /\ [][NextGui]_vars

----------------------------------------------------------------------------
(* The conversion of one record, on records of every shape: SpecConvert.   *)

\* rings on the grid of sample coordinates: a second ring, a ring of fewer
\* than 4 points, rings with a point that is not a pair
SecondRing == << <<0, 0>>, <<0, 2273031>>, <<1113195, 2273031>>,
                 <<1113195, 0>>, <<0, 0>> >>
DegenerateRing == SubSeq(SampleRing, 1, 3)
RingWithZ == << <<0, 0, 0>>, <<0, 2273031, 0>>, <<1113195, 2273031, 0>>,
                <<1113195, 0, 0>>, <<0, 0, 0>> >>
RingWithShortPoint == << <<0, 0>>, <<0>>, <<1113195, 2273031>>,
                         <<1113195, 0>>, <<0, 0>> >>

\* the values of the 'rings' field
RingsArgs ==
    { <<>>, <<SampleRing>>, <<DegenerateRing>>, << <<>> >>,
      <<SampleRing, SecondRing>>, <<SampleRing, DegenerateRing>>,
      <<DegenerateRing, SecondRing>>, <<DegenerateRing, DegenerateRing>>,
      <<SampleRing, DegenerateRing, SecondRing>>,
      <<RingWithZ>>, <<RingWithShortPoint>>, <<SampleRing, RingWithZ>> }

\* the values of the 'geometry' field: null, {}, a geometry of another
\* kind, a geometry with rings
GeometryArgs ==
    {NoneDict, <<>>, [paths |-> <<SampleRing>>]} \cup {[rings |-> r] : r \in RingsArgs}

\* a key that is absent or has one of the values
Optional(key, values) == {<<>>} \cup {key :> v : v \in values}

CountyAttributesArgs ==
    {("NAME" :> "Bexar") @@ ("STATE" :> "48") @@ pop :
        pop \in Optional("POP100", {NoneNumber, 0, 1234})}

StateAttributesArgs ==
    {("STATE" :> "48") @@ name @@ abbr @@ stusps :
        name \in Optional("NAME", {"", "Texas", "Guam", "Atlantis"}),
        abbr \in Optional("STATE_ABBR", {"None", "", "TX"}),
        stusps \in Optional("STUSPS", {"", "TS"})}

\* the records: with or without a 'geometry' field
RecordArgs(attributes_args) ==
    {[attributes |-> a] : a \in attributes_args} \cup
    {[attributes |-> a, geometry |-> g] : a \in attributes_args, g \in GeometryArgs}

NoResult == [type |-> "none"]

\* the calls.  The module imported at line 480 is part of the repository,
\* in the package of the modules imported at lines 18-19: the import
\* succeeds.
ConvertCalls ==
    {[fn |-> "convert_record", data_type |-> "counties", feature |-> f,
      imported |-> TRUE, done |-> FALSE, out |-> NoResult] :
        f \in RecordArgs(CountyAttributesArgs)} \cup
    {[fn |-> "convert_record", data_type |-> "states", feature |-> f,
      imported |-> TRUE, done |-> FALSE, out |-> NoResult] :
        f \in RecordArgs(StateAttributesArgs)}

InitConvert ==
    /\ InitManager
    /\ states_data = NoneData
    /\ gui = GuiStart
    /\ pf \in ConvertCalls

ConvertRecord ==
    /\ pf.fn = "convert_record"
    /\ ~pf.done
    /\ pf' = [pf EXCEPT !.done = TRUE,
                        !.out = convert_record(pf.feature, pf.data_type, pf.imported)]
    /\ UNCHANGED <<gui, states_data, counties_data, counties_by_region,
                   current_region, next_oid, calls, th>>

NextConvert == ConvertRecord

SpecConvert == InitConvert /\ [][NextConvert]_vars

----------------------------------------------------------------------------
(* Hit-testing: main_application.py lines 973-1042.  Coordinates are       *)
(* integers of a grid; on integers the source's float comparison           *)
(*   x <= (y - p1y) * (p2x - p1x) / (p2y - p1y) + p1x                      *)
(* is the comparison of the cross products below.                          *)

Max(a, b) == IF a > b THEN a ELSE b

\* lines 1037-1039, reached only when p1y # p2y (the y-tests of lines
\* 1034-1035 fail on a horizontal edge)
AtOrLeftOfIntersection(x, y, p1, p2) ==
    LET dy == p2[2] - p1[2]
        lhs == (x - p1[1]) * dy
        rhs == (y - p1[2]) * (p2[1] - p1[1])
    IN  p1[1] = p2[1] \/ (IF dy > 0 THEN lhs <= rhs ELSE lhs >= rhs)

\* the tests without those on x
TogglesWhateverX(x, y, p1, p2) ==
    /\ y > Min(p1[2], p2[2])
    /\ y <= Max(p1[2], p2[2])

\* the y-tests with both endpoints excluded
TogglesStrictlyBetween(x, y, p1, p2) ==
    /\ y > Min(p1[2], p2[2])
    /\ y < Max(p1[2], p2[2])
    /\ x <= Max(p1[1], p2[1])
    /\ AtOrLeftOfIntersection(x, y, p1, p2)

\* lines 1034-1040: the edge from p1 to p2 toggles the flag
Toggles(x, y, p1, p2) ==
    /\ y > Min(p1[2], p2[2])
    /\ y <= Max(p1[2], p2[2])
    /\ x <= Max(p1[1], p2[1])
    /\ AtOrLeftOfIntersection(x, y, p1, p2)

\* lines 1028-1042: the loop.  Iteration i (1..n) has p1 = the point of
\* index i - 1 and p2 = the point of index i % n of the source's array;
\* these are the iterations that negate the flag.
TogglingEdges(x, y, polygon_coords) ==
    LET n == Len(polygon_coords)
    IN  {i \in 1..n : Toggles(x, y, polygon_coords[i], polygon_coords[(i % n) + 1])}

\* lines 1027-1042: the flag starts False and is negated once for each
\* edge that toggles, so it ends True when the number of such edges is odd.
RayCast(x, y, polygon_coords) ==
    Cardinality(TogglingEdges(x, y, polygon_coords)) % 2 = 1

\* the box test with the points on the box rejected too
OutsideBoxOrOnIt(x, y, polygon_coords) ==
    LET xs == {polygon_coords[k][1] : k \in 1..Len(polygon_coords)}
        ys == {polygon_coords[k][2] : k \in 1..Len(polygon_coords)}
    IN  \/ \A v \in xs : x <= v
        \/ \A v \in xs : x >= v
        \/ \A v \in ys : y <= v
        \/ \A v \in ys : y >= v

\* lines 1019-1024: the point is outside the bounding box of the ring
OutsideBox(x, y, polygon_coords) ==
    LET xs == {polygon_coords[k][1] : k \in 1..Len(polygon_coords)}
        ys == {polygon_coords[k][2] : k \in 1..Len(polygon_coords)}
    IN  \/ \A v \in xs : x < v
        \/ \A v \in xs : x > v
        \/ \A v \in ys : y < v
        \/ \A v \in ys : y > v

\* _point_in_polygon, lines 1013-1042
point_in_polygon(x, y, polygon_coords) ==
    IF Len(polygon_coords) < 3 THEN FALSE
    ELSE IF OutsideBox(x, y, polygon_coords) THEN FALSE
    ELSE RayCast(x, y, polygon_coords)

\* line 1007: the rings of a MultiPolygon shorter than this are not tested
min_ring_points == 100

BoolStr(b) == IF b THEN "True" ELSE "False"

\* _point_in_state with every ring of a MultiPolygon tested
point_in_state_every_ring(x, y, state_feature) ==
    LET geometry == state_feature.geometry
    IN  IF geometry.type = "Polygon"
        THEN IF Len(geometry.coordinates) = 0 THEN "IndexError"
             ELSE BoolStr(point_in_polygon(x, y, geometry.coordinates[1]))
        ELSE IF geometry.type = "MultiPolygon"
        THEN BoolStr(\E k \in 1..Len(geometry.coordinates) :
                        point_in_polygon(x, y, geometry.coordinates[k][1]))
        ELSE "False"

\* _point_in_state, lines 994-1011: "True", "False", or "IndexError" when
\* coordinates[0] is read of a Polygon with no ring
point_in_state(x, y, state_feature) ==
    LET geometry == state_feature.geometry
    IN  IF geometry.type = "Polygon"
        THEN IF Len(geometry.coordinates) = 0 THEN "IndexError"
             ELSE BoolStr(point_in_polygon(x, y, geometry.coordinates[1]))
        ELSE IF geometry.type = "MultiPolygon"
        THEN BoolStr(\E k \in 1..Len(geometry.coordinates) :
                        /\ Len(geometry.coordinates[k][1]) >= min_ring_points
                        /\ point_in_polygon(x, y, geometry.coordinates[k][1]))
        ELSE "False"

\* get_state_region, api_data_manager.py lines 33-37 and 522-532
get_state_region(state_name) ==
    IF \E region \in DOMAIN REGIONS : state_name \in REGIONS[region]
    THEN CHOOSE region \in DOMAIN REGIONS : state_name \in REGIONS[region]
    ELSE "None"

\* line 979
SkippedStates == {"Alaska", "Hawaii"}

\* lines 975-992: the loop from the k-th feature on
RECURSIVE FindFrom(_, _, _, _)
FindFrom(x, y, features, k) ==
    IF k > Len(features) THEN "None"
    ELSE LET state_name == features[k].properties["NAME"]
             region == get_state_region(state_name)
             hit == point_in_state(x, y, features[k])
         IN  IF state_name \in SkippedStates \/ region = "None"
             THEN FindFrom(x, y, features, k + 1)
             ELSE IF hit = "True" THEN region
             ELSE IF hit = "False" THEN FindFrom(x, y, features, k + 1)
             ELSE hit

\* _find_clicked_region, lines 973-992: a region, "None", or the exception
\* _point_in_state raised
find_clicked_region(x, y) == FindFrom(x, y, states_data.features, 1)

(* The calls of the hit-testing functions: SpecHit *)

\* states in states_data when the map is clicked
MaxFeatures == 2

Square == << <<0, 0>>, <<0, 10>>, <<10, 10>>, <<10, 0>> >>
ClosedSquare == Square \o << <<0, 0>> >>
ShiftedSquare == << <<5, 5>>, <<5, 15>>, <<15, 15>>, <<15, 5>> >>
Triangle == << <<0, 0>>, <<10, 10>>, <<10, 0>> >>
FarSquare == << <<10, 10>>, <<10, 20>>, <<20, 20>>, <<20, 10>> >>
Segment == << <<0, 0>>, <<10, 10>> >>
\* a ring that crosses itself
Bowtie == << <<0, 0>>, <<10, 10>>, <<10, 0>>, <<0, 10>> >>

\* the ring with its first point repeated up to n points
Padded(ring, n) ==
    [k \in 1..n |-> IF k <= n - Len(ring) THEN ring[1] ELSE ring[k - (n - Len(ring))]]

RingArgs == {Square, ClosedSquare, ShiftedSquare, Triangle, Bowtie, Segment, <<>>}

GridCoords == {-5, 0, 5, 10, 15}

\* the clicks on the map
ClickArgs == {<<5, 5>>, <<15, 15>>, <<0, 5>>, <<7, 7>>, <<12, 12>>, <<-5, 5>>}

\* state geometries: one ring, no ring (the converter's output for a
\* record without geometry), a MultiPolygon of a ring that reaches the
\* cutoff and one of a ring that does not
StateGeometryArgs ==
    { [type |-> "Polygon", coordinates |-> <<Square>>],
      [type |-> "Polygon", coordinates |-> <<ShiftedSquare>>],
      [type |-> "Polygon", coordinates |-> <<>>],
      [type |-> "MultiPolygon", coordinates |-> << <<Padded(Square, min_ring_points)>> >>],
      [type |-> "MultiPolygon", coordinates |-> << <<ShiftedSquare>> >>] }

\* a state of West that is skipped, a state without region, a state of
\* Southwest and one of West
StateNameArgs == {"Alaska", "Puerto Rico", "Texas", "Utah"}

StateFeatureArgs ==
    {[type |-> "Feature", properties |-> ("NAME" :> name), geometry |-> g] :
        name \in StateNameArgs, g \in StateGeometryArgs}

StatesDataArgs ==
    {[type |-> "FeatureCollection", oid |-> 0, features |-> fs] :
        fs \in UNION {[1..n -> StateFeatureArgs] : n \in 0..MaxFeatures}}

\* out is the function's result; toggled and loop_out are the iterations
\* that negate the flag and the flag at the end when the loop of lines
\* 1026-1042 runs on the same arguments (a ring of 3 points or more)
PointInPolygonCalls ==
    {[fn |-> "point_in_polygon", x |-> x, y |-> y, polygon_coords |-> ring,
      done |-> FALSE, out |-> "none", toggled |-> {}, loop_out |-> "none"] :
        x \in GridCoords, y \in GridCoords, ring \in RingArgs}

\* the geometries of the states and two more: a Polygon of a ring of two
\* points, and a MultiPolygon of a ring below the cutoff followed by one
\* that reaches it
PointInStateGeometryArgs ==
    StateGeometryArgs \cup
    { [type |-> "Polygon", coordinates |-> <<Segment>>],
      [type |-> "MultiPolygon",
       coordinates |-> << <<FarSquare>>, <<Padded(Square, min_ring_points)>> >>],
      [type |-> "MultiPolygon",
       coordinates |-> << <<Square>>, <<Padded(ShiftedSquare, min_ring_points)>> >>] }

PointInStateCalls ==
    {[fn |-> "point_in_state", x |-> x, y |-> y,
      feature |-> [type |-> "Feature", properties |-> ("NAME" :> "Texas"),
                   geometry |-> g],
      done |-> FALSE, out |-> "none"] :
        x \in GridCoords, y \in GridCoords, g \in PointInStateGeometryArgs}

FindClickedRegionCalls ==
    {[fn |-> "find_clicked_region", x |-> click[1], y |-> click[2],
      done |-> FALSE, out |-> "none"] : click \in ClickArgs}

InitHit ==
    /\ InitManager
    /\ gui = GuiMain
    /\ \/ pf \in PointInPolygonCalls /\ states_data = NoneData
       \/ pf \in PointInStateCalls /\ states_data = NoneData
       \/ pf \in FindClickedRegionCalls /\ states_data \in StatesDataArgs

PointInPolygonCall ==
    /\ pf.fn = "point_in_polygon"
    /\ ~pf.done
    /\ pf' = [pf EXCEPT
                !.done = TRUE,
                !.out = BoolStr(point_in_polygon(pf.x, pf.y, pf.polygon_coords)),
                !.toggled = IF Len(pf.polygon_coords) < 3 THEN {}
                            ELSE TogglingEdges(pf.x, pf.y, pf.polygon_coords),
                !.loop_out = IF Len(pf.polygon_coords) < 3 THEN "none"
                             ELSE BoolStr(RayCast(pf.x, pf.y, pf.polygon_coords))]
    /\ UNCHANGED <<gui, states_data, counties_data, counties_by_region,
                   current_region, next_oid, calls, th>>

PointInStateCall ==
    /\ pf.fn = "point_in_state"
    /\ ~pf.done
    /\ pf' = [pf EXCEPT !.done = TRUE, !.out = point_in_state(pf.x, pf.y, pf.feature)]
    /\ UNCHANGED <<gui, states_data, counties_data, counties_by_region,
                   current_region, next_oid, calls, th>>

FindClickedRegionCall ==
    /\ pf.fn = "find_clicked_region"
    /\ ~pf.done
    /\ pf' = [pf EXCEPT !.done = TRUE, !.out = find_clicked_region(pf.x, pf.y)]
    /\ UNCHANGED <<gui, states_data, counties_data, counties_by_region,
                   current_region, next_oid, calls, th>>

NextHit ==
    \/ PointInPolygonCall
    \/ PointInStateCall
    \/ FindClickedRegionCall

SpecHit == InitHit /\ [][NextHit]_vars

----------------------------------------------------------------------------
(* Classification: chloropleth_generator.py lines 709-768.  The values are *)
(* populations, positive integers; a break is a rational with denominator  *)
(* num_classes, and the model holds its numerator: every break below is    *)
(* num_classes times the break of the source.                              *)

\* sorted(data)
Sorted(data) == SortSeq(data, LAMBDA a, b : a < b)

\* np.percentile(sorted_data, (i / num_classes) * 100), linear
\* interpolation at the position (n - 1) * i / num_classes
percentile(sorted_data, i, num_classes) ==
    LET n == Len(sorted_data)
        position == (n - 1) * i
        below == position \div num_classes
        fraction == position % num_classes
        lower == sorted_data[below + 1]
        upper == sorted_data[Min(below + 2, n)]
    IN  lower * num_classes + fraction * (upper - lower)

\* lines 723-730
quantile_breaks(sorted_data, num_classes) ==
    [i \in 1..num_classes |->
        IF i < num_classes THEN percentile(sorted_data, i, num_classes)
        ELSE sorted_data[Len(sorted_data)] * num_classes]

\* the breaks at min_val + interval * i
equal_interval_breaks_from_min(sorted_data, num_classes) ==
    LET min_val == sorted_data[1]
        max_val == sorted_data[Len(sorted_data)]
    IN  [j \in 1..num_classes |-> min_val * num_classes + (max_val - min_val) * (j - 1)]

\* lines 732-738: min_val + interval * (i + 1) for i in range(num_classes)
equal_interval_breaks(sorted_data, num_classes) ==
    LET min_val == sorted_data[1]
        max_val == sorted_data[Len(sorted_data)]
    IN  [j \in 1..num_classes |-> min_val * num_classes + (max_val - min_val) * j]

\* the breaks at interpolated percentiles
jenks_breaks_interpolated(sorted_data, num_classes) ==
    quantile_breaks(sorted_data, num_classes)

\* _jenks_breaks, lines 750-768, on a non-empty list: the values at the
\* indices int((i / num_classes) * n) that are below n, then the maximum
jenks_breaks(sorted_data, num_classes) ==
    LET n == Len(sorted_data)
        indices == [i \in 1..(num_classes - 1) |-> (i * n) \div num_classes]
        kept == SelectSeq(indices, LAMBDA idx : idx < n)
    IN  [k \in 1..Len(kept) |-> sorted_data[kept[k] + 1] * num_classes] \o
        <<sorted_data[n] * num_classes>>

Methods == {"Quantile", "Equal Interval", "Natural Breaks (Jenks)"}

\* the outcome of a call: the breaks returned, or the exception raised
\* ("pending" while the call has not ended)
Returned(breaks) == [raised |-> "none", breaks |-> breaks]
Raises(exception) == [raised |-> exception, breaks |-> <<>>]

\* _classify_data, lines 709-748: what a call can return or raise.  On an
\* empty list max and min raise ValueError (lines 729, 734, 766); before
\* that, np.percentile of an empty array raises IndexError or returns nan,
\* as the numpy installed has it.
classify_data(data, method, num_classes) ==
    LET sorted_data == Sorted(data)
    IN  IF method = "Equal Interval"
        THEN IF data = <<>> THEN {Raises("ValueError")}
             ELSE {Returned(equal_interval_breaks(sorted_data, num_classes))}
        ELSE IF method = "Natural Breaks (Jenks)"
        THEN IF data = <<>> THEN {Raises("ValueError")}
             ELSE {Returned(jenks_breaks(sorted_data, num_classes))}
        ELSE IF data = <<>>
             THEN IF num_classes > 1 THEN {Raises("IndexError"), Raises("ValueError")}
                  ELSE {Raises("ValueError")}
             ELSE {Returned(quantile_breaks(sorted_data, num_classes))}

\* the loop with "value < break_val" for the test
RECURSIVE ClassIndexFromStrict(_, _, _)
ClassIndexFromStrict(value, breaks, i) ==
    IF i >= Len(breaks) THEN Len(breaks) - 1
    ELSE IF value < breaks[i + 1] THEN i
    ELSE ClassIndexFromStrict(value, breaks, i + 1)

\* the loop returning 0 when the value is above every break
RECURSIVE ClassIndexFromWrapping(_, _, _)
ClassIndexFromWrapping(value, breaks, i) ==
    IF i >= Len(breaks) THEN 0
    ELSE IF value <= breaks[i + 1] THEN i
    ELSE ClassIndexFromWrapping(value, breaks, i + 1)

\* lines 772-775: the loop from index i (0-based, as in the source) on
RECURSIVE ClassIndexFrom(_, _, _)
ClassIndexFrom(value, breaks, i) ==
    IF i >= Len(breaks) THEN Len(breaks) - 1
    ELSE IF value <= breaks[i + 1] THEN i
    ELSE ClassIndexFrom(value, breaks, i + 1)

get_class_index_strict(value, breaks) == ClassIndexFromStrict(value, breaks, 0)

get_class_index_wrapping(value, breaks) == ClassIndexFromWrapping(value, breaks, 0)

\* _get_class_index, lines 770-775
get_class_index(value, breaks) == ClassIndexFrom(value, breaks, 0)

(* The calls of _classify_data and of _get_class_index: SpecClassify *)

\* the longest list of breaks
MaxBreaks == 3

BreakArgs == {1, 5, 10}

\* populations of counties: positive (line 681)
ValueArgs == {1, 3, 5, 10, 20}

\* _get_class_index is called on one value, then on another, with the
\* same breaks (lines 677-685 call it for every patch of a county)
ClassIndexCalls ==
    {[fn |-> "get_class_index", values |-> <<v1, v2>>, breaks |-> breaks,
      done |-> FALSE, outs |-> <<>>] :
        v1 \in ValueArgs, v2 \in ValueArgs,
        breaks \in UNION {[1..n -> BreakArgs] : n \in 0..MaxBreaks}}


\* the longest list of populations
MaxValues == 3
\* the largest number of classes
MaxClasses == 5

PopulationArgs == {1, 2, 5, 10}

\* the methods of the combobox (line 165) and a name that is none of them
MethodArgs == Methods \cup {"Standard Deviation"}

ClassifyCalls ==
    {[fn |-> "classify_data", data |-> data, method |-> method,
      num_classes |-> k, done |-> FALSE, out |-> Raises("pending")] :
        data \in UNION {[1..n -> PopulationArgs] : n \in 0..MaxValues},
        method \in MethodArgs, k \in 1..MaxClasses}

InitClassify ==
    /\ InitManager
    /\ gui = GuiMain
    /\ states_data = NoneData
    /\ pf \in ClassifyCalls \cup ClassIndexCalls

\* one call of _get_class_index, on the next of the values
GetClassIndex ==
    /\ pf.fn = "get_class_index"
    /\ ~pf.done
    /\ LET value == pf.values[Len(pf.outs) + 1]
           outs == Append(pf.outs, get_class_index(value, pf.breaks))
       IN  pf' = [pf EXCEPT !.outs = outs, !.done = (Len(outs) = Len(pf.values))]
    /\ UNCHANGED <<gui, states_data, counties_data, counties_by_region,
                   current_region, next_oid, calls, th>>

ClassifyData ==
    /\ pf.fn = "classify_data"
    /\ ~pf.done
    /\ \E result \in classify_data(pf.data, pf.method, pf.num_classes) :
         pf' = [pf EXCEPT !.done = TRUE, !.out = result]
    /\ UNCHANGED <<gui, states_data, counties_data, counties_by_region,
                   current_region, next_oid, calls, th>>

NextClassify ==
    \/ ClassifyData
    \/ GetClassIndex

SpecClassify == InitClassify /\ [][NextClassify]_vars

----------------------------------------------------------------------------
(* Properties of load_counties_data (one caller, Spec) *)

M == th[MainThread]

InData == M.op = "load_counties_data"
InRegion == M.op = "load_counties_for_region"

\* the batch loop of the call is over
LoopOver == M.pc \in {"finish", "convert", "store", "done"} /\ M.keys # <<>>

\* C1: the OBJECTID ranges load_counties_data requests are, in ascending
\* order, [1,150], [151,300], ...: each starts right after the one before it,
\* each but the last holds batch_size ids, none reaches beyond the record
\* count N, and when the loop is over the last one ends exactly at N; for
\* N = 320 they are [1,150], [151,300], [301,320].
C1_BatchCoverage ==
    (InData /\ M.keys # <<>>) =>
        LET keys == M.keys
            N == M.total_records
        IN  /\ keys[1][1] = 1
            /\ \A k \in 1..Len(keys) :
                  /\ keys[k][1] <= keys[k][2]
                  /\ keys[k][2] <= N
                  /\ k < Len(keys) => /\ keys[k][2] = keys[k][1] + batch_size - 1
                                      /\ keys[k + 1][1] = keys[k][2] + 1
            /\ LoopOver => keys[Len(keys)][2] = N
            /\ (LoopOver /\ N = 320) =>
                  keys = << <<1, 150>>, <<151, 300>>, <<301, 320>> >>

C1_Witness ==
    /\ InData /\ M.pc = "done" /\ M.ret = "True"
    /\ M.total_records = 320
    /\ M.keys = << <<1, 150>>, <<151, 300>>, <<301, 320>> >>

\* a step of the caller that closes a batch (or a state partition)
ClosesBatch == M.pc \in {"batch", "state"} /\ th'[MainThread].cur.closed /\ th' # th

\* after the step, the call is on the next batch or past the loop
Proceeds ==
    \/ /\ th'[MainThread].pc = "batch"
       /\ th'[MainThread].batch_start = M.batch_start + batch_size
       /\ th'[MainThread].retry_count = 0
    \/ th'[MainThread].pc = "finish"

\* C2: in load_counties_data no batch is requested more than 3 times, and a
\* batch whose every attempt ended in an error answer, a timeout or a
\* transport failure (of whatever mix) has been requested exactly 3 times
\* when it is closed; closing it adds 1 to the failed tally, adds no
\* record, and the call proceeds with the next batch.
C2_RetryThenFail ==
    /\ [](InData => M.cur.attempts <= max_retries)
    /\ [][(InData /\ ClosesBatch /\ th'[MainThread].cur.seen \subseteq FailureKinds) =>
            /\ th'[MainThread].cur.attempts = max_retries
            /\ th'[MainThread].failed = M.failed + 1
            /\ th'[MainThread].successful = M.successful
            /\ th'[MainThread].all_features = M.all_features
            /\ Proceeds]_vars

C2_Witness ==
    /\ InData /\ M.pc = "batch" /\ M.cur.closed
    /\ M.cur.seen = FailureKinds /\ M.cur.attempts = 3
    /\ M.failed = 1 /\ M.all_features = <<>>

----------------------------------------------------------------------------
(* Properties of load_counties_for_region (one caller, Spec) *)

\* a step of the caller that closes a state partition moves to the next
\* state or past the loop
ProceedsToNextState ==
    \/ /\ th'[MainThread].pc = "state"
       /\ th'[MainThread].i = M.i + 1
    \/ th'[MainThread].pc = "convert"

RECURSIVE ServiceRecords(_, _)
ServiceRecords(fips_codes, ok) ==
    IF fips_codes = <<>> THEN <<>>
    ELSE (IF Head(fips_codes) \in ok THEN StateResponseFeatures(Head(fips_codes))
          ELSE <<>>) \o ServiceRecords(Tail(fips_codes), ok)

\* name, state and population of each feature of a converted collection
PropertiesOf(features) ==
    [k \in 1..Len(features) |->
        <<features[k].properties["NAME"], features[k].properties["STATE"],
          features[k].properties["POP100"]>>]

\* name, state and population of each record of the service
AttributesOf(records) ==
    [k \in 1..Len(records) |->
        <<records[k].attributes["NAME"], records[k].attributes["STATE"],
          records[k].attributes["POP100"]>>]

\* the call went through the state loop, and some but not all states
\* were answered with records
PartialRegionLoad ==
    /\ InRegion /\ M.pc = "done" /\ M.n_requests > 0
    /\ M.ok_keys # {}
    /\ Cardinality(M.ok_keys) < Len(M.state_fips_codes)

\* C4: when some but not all states of the region fail, the call returns
\* True, counties_data holds one feature per record of the successful
\* states, in state order, and none of a failed state, and the failed tally
\* is the number of states that gave no record.
C4_PartialFailureTolerated ==
    PartialRegionLoad =>
        /\ M.ret = "True"
        /\ counties_data.type = "FeatureCollection"
        /\ PropertiesOf(counties_data.features) =
               AttributesOf(ServiceRecords(M.state_fips_codes, M.ok_keys))
        /\ \A k \in 1..Len(counties_data.features) :
               /\ counties_data.features[k].properties["STATE"] \in M.ok_keys
               /\ counties_data.features[k].geometry.type = "Polygon"
        /\ M.failed = Len(M.state_fips_codes) - Cardinality(M.ok_keys)
        /\ M.successful = Cardinality(M.ok_keys)

C4_Witness ==
    /\ PartialRegionLoad
    /\ Len(M.state_fips_codes) = 4
    /\ Cardinality(M.ok_keys) = 3
    /\ M.n_failure = 1
    /\ M.failed = 1 /\ M.ret = "True"
    /\ Len(counties_data.features) = 6

----------------------------------------------------------------------------
(* Properties of both acquisition strategies (one caller, Spec) *)

\* C5: once batching has started, a call returns False exactly when no
\* batch was answered with records; one batch answered with records makes
\* it return True, whatever the other batches did.
C5_FailsOnlyOnZeroRecords ==
    (M.pc = "done" /\ M.keys # <<>>) =>
        /\ M.ret \in {"True", "False"}
        /\ M.ret = "False" <=> M.ok_keys = {}

C5_Witness ==
    /\ InData /\ M.pc = "done" /\ M.ret = "True"
    /\ Len(M.keys) = 3 /\ Cardinality(M.ok_keys) = 1 /\ M.n_failure = 2

\* C6: an answer that is well-formed, has no error field and no features
\* ends its batch: no further request is made for the batch, and when it
\* answered the first attempt the batch was requested exactly once.
C6_EmptyNotRetried ==
    (M.op # "none" /\ M.cur.last = "empty") =>
        /\ M.cur.closed
        /\ M.cur.seen = {"empty"} => M.cur.attempts = 1

C6_Witness ==
    /\ InData /\ M.pc = "batch" /\ M.batch_start = batch_size + 1
    /\ M.cur.closed /\ M.cur.seen = {"empty"} /\ M.cur.attempts = 1
    /\ M.n_requests = 2

\* C7, as claimed: the failed tally counts only the batches closed by an
\* explicit error or by attempts exhausted through timeouts and transport
\* failures; a batch closed by an empty well-formed answer is not counted.
C7_EmptyNotCounted == (M.op # "none") => M.failed = M.n_failure

\* C7, amended: a batch (or state partition) closed by an empty well-formed
\* answer is counted as failed too, though it is not retried: the failed
\* tally is the number of batches closed by a failure plus the number
\* closed by an empty answer.
C7_EmptyCountedAsFailed ==
    (M.op # "none") =>
        /\ M.failed = M.n_failure + M.n_empty
        /\ M.successful = Cardinality(M.ok_keys)

C7_Witness ==
    /\ InData /\ M.pc = "done"
    /\ M.n_empty = 1 /\ M.n_failure = 1 /\ M.failed = 2 /\ M.successful = 1

\* no entry of the region cache is removed or replaced by the step
CacheEntriesKept ==
    \A r \in DOMAIN counties_by_region :
        /\ r \in DOMAIN counties_by_region'
        /\ counties_by_region'[r] = counties_by_region[r]

\* C8: a call of load_counties_for_region(r) made after an earlier one has
\* cached r makes no request and no conversion, returns True, and leaves in
\* counties_data the very collection the cache holds, which is the one the
\* first call stored: with one caller a cached entry is never replaced.
C8_CacheHitIsIdempotent ==
    /\ [](InRegion /\ M.was_cached =>
            /\ M.pc \in {"check", "done"}
            /\ M.n_requests = 0 /\ M.n_conversions = 0
            /\ M.pc = "done" => /\ M.ret = "True"
                                /\ counties_data = counties_by_region[M.region]
                                /\ current_region = M.region)
    /\ [][CacheEntriesKept]_vars

C8_Witness ==
    /\ InRegion /\ M.was_cached /\ M.pc = "done" /\ M.ret = "True"
    /\ M.region = "Southwest" /\ calls = 2
    /\ counties_data.oid = 1 /\ next_oid = 2

----------------------------------------------------------------------------
(* Properties of the region cache under concurrent loads (SpecConc) *)

\* C9: once an entry for a region is in the cache, no step of any load
\* thread replaces or modifies it.
C9_EntryNeverReplaced == [][CacheEntriesKept]_<<counties_by_region>>

\* the thread is past the cache check and has not yet finished the insert
BetweenCheckAndInsert(t) == th[t].pc \in {"state", "convert", "store"}

\* C10: two threads are never both between the cache check and the cache
\* insert of load_counties_for_region.
C10_CheckAndInsertSerialized ==
    \A t1, t2 \in Threads :
        (t1 # t2) => ~(BetweenCheckAndInsert(t1) /\ BetweenCheckAndInsert(t2))

----------------------------------------------------------------------------
(* Properties of what the region cache stores (one caller, Spec) *)

\* the state codes of the features of a converted collection
StatesOf(data) ==
    {data.features[k].properties["STATE"] : k \in 1..Len(data.features)}

\* the state codes load_counties_for_region looks up for the region
RegionFips(region) ==
    LET codes == FipsCodes(states_data.features, get_states_in_region(region))
    IN  {codes[k] : k \in 1..Len(codes)}

\* C11: the region cache never holds a partial result: an entry for a
\* region has records of every state partition the region was loaded by.
C11_NoPartialCached ==
    \A r \in DOMAIN counties_by_region :
        StatesOf(counties_by_region[r]) = RegionFips(r)

----------------------------------------------------------------------------
(* Properties of failed loads (the start, then one caller: Spec) *)

\* the step changes what the manager has loaded or cached
ChangesLoadedData ==
    <<counties_data, counties_by_region, current_region>>' #
        <<counties_data, counties_by_region, current_region>>

\* after the step the caller's call has returned True, or is at the cache
\* insert, whose only continuation returns True
CommitsToTrue ==
    \/ th'[MainThread].pc = "done" /\ th'[MainThread].ret = "True"
    \/ th'[MainThread].pc = "store"

\* no step of a call that returns False changes the loaded data or the
\* cache: a step that changes them belongs to a call that returns True
FailedCallChangesNothing ==
    /\ [][ChangesLoadedData => CommitsToTrue]_vars
    /\ [][M.pc = "store" =>
             th'[MainThread].pc = "done" /\ th'[MainThread].ret = "True"]_vars
    /\ [][states_data' # states_data => gui'.success = "True"]_vars

\* every batch of the finished call was answered with records
AllAnswered ==
    M.pc = "done" /\ M.keys # <<>> /\ M.n_failure = 0 /\ M.n_empty = 0

\* a call that repeats one that returned False is not served from the
\* cache, issues every request again, and returns True with a newly
\* converted collection when every request is answered with records
RetryIsAFreshCall ==
    M.retry =>
        /\ ~M.was_cached
        /\ InRegion /\ M.pc = "done" /\ RegionFips(M.region) # {} =>
               M.n_requests = Cardinality(RegionFips(M.region))
        /\ InData => M.pc \in {"count", "batch", "finish", "done"}
        /\ AllAnswered => /\ M.ret = "True"
                          /\ counties_data.oid = next_oid - 1
                          /\ M.n_conversions = 1

\* the load of the states at the start has failed
StartFailed == gui.loading_complete /\ ~gui.loading_successful

\* C12, as claimed: every acquisition failure is recoverable and none is
\* fatal: a call that returns False leaves the loaded data and the cache
\* as they were, a repeated call issues the requests again and returns
\* True when they succeed, and after a failed load of the states at the
\* start the process keeps running.
C12_EveryFailureRecoverable ==
    /\ FailedCallChangesNothing
    /\ []RetryIsAFreshCall
    /\ [](StartFailed => gui.root = "alive")

\* C12, amended: a county load that returns False leaves the loaded data
\* and the cache as they were, and a repeated call issues the requests
\* again and returns True when they succeed; the load of the states at the
\* start is the exception: when it fails states_data stays None, and the
\* only step the application then takes destroys the root window, after
\* which the process takes no step: that load is never retried.
C12_RecoverableButAtStart ==
    /\ FailedCallChangesNothing
    /\ []RetryIsAFreshCall
    /\ [](StartFailed => states_data = NoneData /\ calls = 0)
    /\ [][StartFailed => gui'.root = "destroyed"]_vars
    /\ [][gui.root = "alive"]_vars

C12_Witness ==
    /\ InRegion /\ M.retry /\ M.region = "Southwest" /\ calls = 2
    /\ M.pc = "done" /\ M.ret = "True" /\ AllAnswered /\ M.n_requests = 4
    /\ DOMAIN counties_by_region = {"Southwest"}
    /\ Len(counties_data.features) = 8

----------------------------------------------------------------------------
(* Properties of the conversion of one record (SpecConvert) *)

\* the call of convert_record has returned or raised
Converted == pf.fn = "convert_record" /\ pf.done

\* the record's geometry as the converter receives it (line 362)
GeometryArg == Get(pf.feature, "geometry", <<>>)

\* the record has a geometry with rings, of points that are pairs
HasRings ==
    /\ ~FalsyDict(GeometryArg)
    /\ "rings" \in DOMAIN GeometryArg
    /\ ~UnpackFails(GeometryArg["rings"])

\* the ring in degrees
InDegrees(ring) ==
    [j \in 1..Len(ring) |-> web_mercator_to_latlon(ring[j][1], ring[j][2])]

\* the rings of at least 4 points, in degrees
RingsOf4(rings) ==
    SelectSeq([k \in 1..Len(rings) |-> InDegrees(rings[k])],
              LAMBDA ring : Len(ring) >= 4)

\* C13, as claimed: the converter emits a Polygon holding the one ring if
\* and only if the record has exactly one ring, and for two or more rings
\* a MultiPolygon in which each ring is a single-ring polygon of its own.
C13_PolygonIffOneRing ==
    (Converted /\ HasRings) =>
        LET rings == GeometryArg["rings"]
            geometry == pf.out.geometry
        IN  /\ geometry.type = "Polygon" <=> Len(rings) = 1
            /\ Len(rings) = 1 => geometry.coordinates = <<InDegrees(rings[1])>>
            /\ Len(rings) >= 2 =>
                 /\ geometry.type = "MultiPolygon"
                 /\ geometry.coordinates =
                        [k \in 1..Len(rings) |-> <<InDegrees(rings[k])>>]

\* C13, amended: a record with exactly one ring gives a Polygon holding
\* that ring, whatever its length; a record with several rings of which
\* exactly one has at least 4 points gives a Polygon holding that ring;
\* any other record with rings gives a MultiPolygon in which each ring of
\* at least 4 points is a single-ring polygon of its own, in order, the
\* shorter rings being dropped (none when the record has no ring).
C13_PolygonOrMultiPolygon ==
    (Converted /\ HasRings) =>
        LET rings == GeometryArg["rings"]
            geometry == pf.out.geometry
            kept == RingsOf4(rings)
        IN  /\ pf.out.type = "Feature"
            /\ geometry.type = "Polygon" <=> (Len(rings) = 1 \/ Len(kept) = 1)
            /\ geometry.type \in {"Polygon", "MultiPolygon"}
            /\ Len(rings) = 1 => geometry.coordinates = <<InDegrees(rings[1])>>
            /\ (Len(rings) # 1 /\ Len(kept) = 1) => geometry.coordinates = <<kept[1]>>
            /\ geometry.type = "MultiPolygon" =>
                   geometry.coordinates = [k \in 1..Len(kept) |-> <<kept[k]>>]

C13_Witness ==
    /\ Converted /\ HasRings
    /\ GeometryArg["rings"] = <<DegenerateRing, SecondRing>>
    /\ pf.out.geometry.type = "Polygon"
    /\ pf.out.geometry.coordinates = <<InDegrees(SecondRing)>>

\* C14: converting a record never raises: it yields a feature whatever the
\* geometry, and a record with no geometry, a null geometry or a geometry
\* without rings yields a Polygon with empty coordinates.
C14_ConversionNeverRaises ==
    Converted =>
        /\ pf.out.type = "Feature"
        /\ (FalsyDict(GeometryArg) \/ "rings" \notin DOMAIN GeometryArg) =>
               pf.out.geometry = [type |-> "Polygon", coordinates |-> <<>>]

\* the attributes of the record
AttributesArg == Get(pf.feature, "attributes", <<>>)

\* C15: the short code of a converted state is the remote code when there
\* is one, else the table's value for the name when the table has the
\* name, else the first two characters of the name in upper case.
C15_ShortCodeFallbacks ==
    (Converted /\ pf.data_type = "states" /\ pf.out.type = "Feature") =>
        LET name == Get(AttributesArg, "NAME", "")
            remote == Get(AttributesArg, "STATE_ABBR", Get(AttributesArg, "STUSPS", ""))
            code == pf.out.properties["STATE_ABBR"]
        IN  /\ pf.out.properties["STUSPS"] = code
            /\ IF ~FalsyStr(remote) THEN code = remote
               ELSE IF name \in DOMAIN US_STATES_ABBREVIATIONS
                    THEN code = US_STATES_ABBREVIATIONS[name]
                    ELSE code = Prefix2Upper(name) /\ (name # "" => code # "")

\* C16: POP100 of a converted county is 0 when the attribute is absent and
\* when it is null, and is never null.
C16_PopulationNeverNull ==
    (Converted /\ pf.data_type = "counties" /\ pf.out.type = "Feature") =>
        /\ pf.out.properties["POP100"] # NoneNumber
        /\ ("POP100" \notin DOMAIN AttributesArg \/ AttributesArg["POP100"] = NoneNumber)
               => pf.out.properties["POP100"] = 0

----------------------------------------------------------------------------
(* Properties of hit-testing (SpecHit) *)

\* the call of _point_in_polygon on the ring and the point has returned
Tested(ring, x, y) ==
    /\ pf.fn = "point_in_polygon" /\ pf.done
    /\ pf.polygon_coords = ring /\ pf.x = x /\ pf.y = y

\* C17: on the square ring (0,0), (0,10), (10,10), (10,0), _point_in_polygon
\* answers inside for (5,5), outside for (15,15), and for the boundary
\* point (0,5) the one answer the toggle rule yields: both vertical edges
\* toggle, so outside.
C17_SquareRing ==
    /\ Tested(Square, 5, 5) => pf.out = "True"
    /\ Tested(Square, 15, 15) => pf.out = "False"
    /\ Tested(Square, 0, 5) =>
           /\ pf.out = "False"
           /\ {k \in 1..4 : Toggles(0, 5, Square[k], Square[(k % 4) + 1])} = {1, 3}

C17_Witness == Tested(Square, 0, 5) /\ pf.out = "False"

\* the call of _find_clicked_region has returned or raised
Clicked == pf.fn = "find_clicked_region" /\ pf.done

\* the states the loop does not skip and whose geometry _point_in_state
\* finds the point in
Containing(x, y) ==
    {k \in 1..Len(states_data.features) :
        LET state_name == states_data.features[k].properties["NAME"]
        IN  /\ state_name \notin SkippedStates
            /\ get_state_region(state_name) # "None"
            /\ point_in_state(x, y, states_data.features[k]) = "True"}

\* C18: _find_clicked_region returns the region of the first state of
\* states_data, Alaska, Hawaii and the states without region apart, whose
\* geometry contains the point, and None when there is none (never the
\* region of some other state); and it changes nothing of the manager.
C18_FirstContainingState ==
    /\ [](Clicked =>
            LET hits == Containing(pf.x, pf.y)
                first == CHOOSE k \in hits : \A j \in hits : k <= j
            IN  IF hits = {} THEN pf.out = "None"
                ELSE pf.out = get_state_region(
                                  states_data.features[first].properties["NAME"]))
    /\ [][pf.fn = "find_clicked_region" =>
            UNCHANGED <<states_data, counties_data, counties_by_region,
                        current_region>>]_vars

----------------------------------------------------------------------------
(* Properties of classification (SpecClassify) *)

\* the call of _classify_data has returned or raised
Classified == pf.fn = "classify_data" /\ pf.done

\* the largest value of a non-empty list
Largest(data) == CHOOSE v \in {data[k] : k \in 1..Len(data)} :
                     \A k \in 1..Len(data) : data[k] <= v

\* C19: for a non-empty list of positive values, a number of classes k >= 1
\* and each of the three methods, _classify_data returns k breaks, in
\* non-decreasing order, the last of them at least the largest value, also
\* when the list is shorter than k.
C19_BreaksWellFormed ==
    (Classified /\ pf.data # <<>> /\ pf.method \in Methods) =>
        LET breaks == pf.out.breaks
        IN  /\ pf.out.raised = "none"
            /\ Len(breaks) = pf.num_classes
            /\ \A k \in 1..(Len(breaks) - 1) : breaks[k] <= breaks[k + 1]
            /\ breaks[Len(breaks)] >= Largest(pf.data) * pf.num_classes

C19_Witness ==
    /\ Classified /\ pf.method = "Equal Interval"
    /\ pf.data = <<10, 2>> /\ pf.num_classes = 4
    /\ pf.out.breaks = <<16, 24, 32, 40>>

Looked(k) == pf.fn = "get_class_index" /\ Len(pf.outs) >= k

\* the indices (0-based) of the breaks the value does not exceed
NotBelow(value, breaks) == {i \in 0..(Len(breaks) - 1) : value <= breaks[i + 1]}

\* C21: _get_class_index returns the first index i with value <= breaks[i]
\* (a value equal to a break is in the class of that break, not the next),
\* and the last index len(breaks) - 1 when the value is above every break;
\* with breaks that are not empty the result is in 0..len(breaks)-1.
C21_FirstBreakNotBelow ==
    \A k \in 1..2 :
        Looked(k) =>
            LET value == pf.values[k]
                index == pf.outs[k]
                fits == NotBelow(value, pf.breaks)
            IN  /\ fits # {} => index \in fits /\ \A i \in fits : index <= i
                /\ fits = {} => index = Len(pf.breaks) - 1
                /\ pf.breaks # <<>> => index \in 0..(Len(pf.breaks) - 1)

C21_Witness ==
    /\ Looked(2) /\ pf.breaks = <<1, 5, 10>> /\ pf.values = <<5, 20>>
    /\ pf.outs = <<1, 2>>

\* the breaks are in non-decreasing order
NonDecreasing(breaks) == \A i \in 1..(Len(breaks) - 1) : breaks[i] <= breaks[i + 1]

\* C22: with breaks in non-decreasing order and values v1 <= v2, the class
\* index of v1 is at most the class index of v2.
C22_ClassIndexMonotone ==
    (Looked(2) /\ NonDecreasing(pf.breaks) /\ pf.values[1] <= pf.values[2]) =>
        pf.outs[1] <= pf.outs[2]

C22_Witness ==
    /\ Looked(2) /\ pf.breaks = <<1, 5, 5>> /\ pf.values = <<3, 20>>
    /\ pf.outs = <<1, 2>>

\* the value at index j (0-based) of the list put in non-decreasing order:
\* at most j values are below it, more than j are not above it
AtRank(data, j) ==
    CHOOSE v \in {data[k] : k \in 1..Len(data)} :
        /\ Cardinality({k \in 1..Len(data) : data[k] < v}) <= j
        /\ Cardinality({k \in 1..Len(data) : data[k] <= v}) > j

\* C23: for n values and k classes Natural Breaks returns k breaks: for
\* i = 1..k-1 the value at index floor(i * n / k) of the sorted values, no
\* position skipped, then the largest value; values of the list, not
\* percentiles interpolated between them.
C23_JenksIndexPositions ==
    (Classified /\ pf.method = "Natural Breaks (Jenks)" /\ pf.data # <<>>) =>
        LET n == Len(pf.data)
            k == pf.num_classes
            breaks == pf.out.breaks
        IN  /\ pf.out.raised = "none"
            /\ Len(breaks) = k
            /\ \A i \in 1..(k - 1) : breaks[i] = AtRank(pf.data, (i * n) \div k) * k
            /\ breaks[k] = Largest(pf.data) * k

C23_Witness ==
    /\ Classified /\ pf.method = "Natural Breaks (Jenks)"
    /\ pf.data = <<10, 1, 2>> /\ pf.num_classes = 4
    /\ pf.out.breaks = <<4, 8, 40, 40>>
    /\ pf.out.breaks # quantile_breaks(<<1, 2, 10>>, 4)

\* a call of _point_in_polygon on a ring the loop can run on is over
LoopRan == pf.fn = "point_in_polygon" /\ pf.done /\ Len(pf.polygon_coords) >= 3

\* the endpoints of the edge of iteration i
EdgeStart(i) == pf.polygon_coords[i]
EdgeEnd(i) == pf.polygon_coords[(i % Len(pf.polygon_coords)) + 1]

\* x is at or left of the point where the line through p1 and p2 has
\* ordinate y:  x <= p1x + (y - p1y) * (p2x - p1x) / (p2y - p1y), both
\* sides multiplied by the square of p2y - p1y
LeftOrOn(x, y, p1, p2) ==
    (x - p1[1]) * (p2[2] - p1[2]) * (p2[2] - p1[2])
        <= (y - p1[2]) * (p2[1] - p1[1]) * (p2[2] - p1[2])

StrictlyBetween(y, p1, p2) == Min(p1[2], p2[2]) < y /\ y < Max(p1[2], p2[2])

\* C24 as stated: an edge toggles the flag only when y is strictly between
\* the y-values of its endpoints; it then toggles exactly when x is at or
\* left of the intersection; a vertical edge that passes the y-test always
\* toggles.
C24_StrictlyBetweenRule ==
    LoopRan =>
        \A i \in 1..Len(pf.polygon_coords) :
            /\ i \in pf.toggled => StrictlyBetween(pf.y, EdgeStart(i), EdgeEnd(i))
            /\ StrictlyBetween(pf.y, EdgeStart(i), EdgeEnd(i)) =>
                  /\ i \in pf.toggled <=> LeftOrOn(pf.x, pf.y, EdgeStart(i), EdgeEnd(i))
                  /\ EdgeStart(i)[1] = EdgeEnd(i)[1] => i \in pf.toggled

\* C24: an edge toggles the flag exactly when y is above the lower and at
\* or below the upper of the y-values of its endpoints (min < y <= max) and
\* x is at or left of the intersection, which for a vertical edge is the
\* edge's own x.
C24_HalfOpenRule ==
    LoopRan =>
        \A i \in 1..Len(pf.polygon_coords) :
            i \in pf.toggled <=>
                /\ Min(EdgeStart(i)[2], EdgeEnd(i)[2]) < pf.y
                /\ pf.y <= Max(EdgeStart(i)[2], EdgeEnd(i)[2])
                /\ LeftOrOn(pf.x, pf.y, EdgeStart(i), EdgeEnd(i))

\* the point (5,10) on the upper side of the square: the right edge, whose
\* upper endpoint is at y = 10, toggles
C24_Witness ==
    /\ Tested(Square, 5, 10)
    /\ pf.toggled = {3}
    /\ pf.out = "True"

\* a call of _point_in_state is over
InStateTested == pf.fn = "point_in_state" /\ pf.done

\* the exterior rings of the polygons of the feature, in declared order
ExteriorRings ==
    [k \in 1..Len(pf.feature.geometry.coordinates) |->
        pf.feature.geometry.coordinates[k][1]]

\* C25: for a MultiPolygon _point_in_state answers true exactly when one of
\* the rings of at least 100 points contains the point; a point that is
\* only inside rings of fewer than 100 points is reported not contained,
\* and a state whose rings all have fewer than 100 points is never hit.
C25_MajorRingsOnly ==
    (InStateTested /\ pf.feature.geometry.type = "MultiPolygon") =>
        LET major == {k \in DOMAIN ExteriorRings : Len(ExteriorRings[k]) >= 100}
        IN  /\ pf.out \in {"True", "False"}
            /\ pf.out = "True" <=>
                  \E k \in major : point_in_polygon(pf.x, pf.y, ExteriorRings[k])
            /\ major = {} => pf.out = "False"

\* (15,15) is inside the ring of 4 points and outside the ring of 100
C25_Witness ==
    /\ InStateTested
    /\ pf.feature.geometry.type = "MultiPolygon"
    /\ ExteriorRings = <<FarSquare, Padded(Square, 100)>>
    /\ pf.x = 15 /\ pf.y = 15
    /\ point_in_polygon(15, 15, FarSquare)
    /\ pf.out = "False"

\* the geometry is a Polygon without ring, or a Polygon whose ring has
\* fewer than 3 points
DegenerateGeometry(geometry) ==
    /\ geometry.type = "Polygon"
    /\ \/ geometry.coordinates = <<>>
       \/ Len(geometry.coordinates[1]) < 3

\* C26: given a feature whose geometry is a Polygon with empty coordinates
\* or a Polygon whose ring has fewer than 3 points, _point_in_state reports
\* not contained, and neither it nor _find_clicked_region raises.
C26_DegenerateNotContained ==
    /\ (InStateTested /\ DegenerateGeometry(pf.feature.geometry)) => pf.out = "False"
    /\ Clicked => pf.out # "IndexError"

\* the batches the two tallies of the caller have counted
Tallied(f) == f.successful + f.failed

\* C27: in load_counties_data every step that ends a batch adds 1 to
\* exactly one of successful_batches and failed_batches, no other step of
\* the loop changes them, and when the loop ends their sum is the number of
\* batches issued, whatever the answers to the attempts were.
C27_EveryBatchTalliedOnce ==
    /\ [](InData =>
            Tallied(M) = Len(M.keys) - (IF M.pc = "batch" THEN 1 ELSE 0))
    /\ [][(InData /\ M.pc = "batch") =>
            LET f == th'[MainThread]
            IN  IF ClosesBatch
                THEN \/ f.successful = M.successful + 1 /\ f.failed = M.failed
                     \/ f.failed = M.failed + 1 /\ f.successful = M.successful
                ELSE f.successful = M.successful /\ f.failed = M.failed]_vars

\* three batches: one failed after three attempts, two loaded at once
C27_Witness ==
    /\ InData /\ LoopOver
    /\ Len(M.keys) = 3
    /\ M.successful = 2 /\ M.failed = 1
    /\ M.n_failure = 1 /\ M.n_requests = 6

\* the point of the call is outside the axis-aligned bounding box of its
\* ring: left of, right of, below or above every point of the ring
OutsideBoundingBox ==
    LET ring == pf.polygon_coords
        pts == 1..Len(ring)
    IN  \/ \A k \in pts : pf.x < ring[k][1]
        \/ \A k \in pts : pf.x > ring[k][1]
        \/ \A k \in pts : pf.y < ring[k][2]
        \/ \A k \in pts : pf.y > ring[k][2]

\* C28: for a ring of at least 3 points and a point outside the ring's
\* bounding box the ray-casting loop alone answers outside, so the result
\* of _point_in_polygon is that of the loop run without the prefilter.
C28_PrefilterIsOptimisation ==
    LoopRan =>
        /\ OutsideBoundingBox => pf.loop_out = "False"
        /\ pf.out = pf.loop_out

\* (-5,10) is left of the triangle, at the height of its upper vertex: two
\* edges toggle in the loop
C28_Witness ==
    /\ Tested(Triangle, 0 - 5, 10)
    /\ OutsideBoundingBox
    /\ pf.toggled = {1, 2}
    /\ pf.loop_out = "False" /\ pf.out = "False"

\* the loading thread has ended
LoaderEnded == gui.loader_pc = "end"

\* C29: load_data_async always ends with loading_complete set, whether the
\* load succeeded, failed or raised; loading_successful and error_message
\* have their final values when loading_complete becomes True and keep
\* them; so the poll opens the main window only after a load that
\* succeeded, and closes the application only after one that did not.
C29_CompleteIsSetLast ==
    /\ <>gui.loading_complete
    /\ [](gui.loading_complete =>
            /\ LoaderEnded
            /\ gui.loading_successful <=> gui.success = "True"
            /\ gui.error_message = "None" <=> gui.success = "True")
    /\ [][gui.loading_complete =>
            /\ gui'.loading_complete
            /\ gui'.loading_successful = gui.loading_successful
            /\ gui'.error_message = gui.error_message]_vars
    /\ [](gui.screen = "main" => gui.success = "True")
    /\ [](gui.root = "destroyed" => gui.success \in {"False", "Raised"})

\* the load raised, and the poll has closed the application
C29_Witness ==
    /\ gui.success = "Raised"
    /\ gui.loading_complete /\ ~gui.loading_successful
    /\ gui.error_message = "main thread is not in main loop"
    /\ gui.root = "destroyed"

\* the state codes load_counties_for_region requests for a region
RequestedFor(region) ==
    IF region \in DOMAIN REGIONS THEN RegionFips(region) ELSE {}

\* C30: the chloropleth window opened when a county load completes is
\* created for the region whose counties were loaded: the counties it
\* shows are those of states of the region it was given, whatever clicks
\* were made on the map while the load thread ran.
C30_WindowForLoadedRegion ==
    gui.generator.open =>
        /\ gui.generator.states # {}
        /\ gui.generator.states \subseteq RequestedFor(gui.generator.region)

====
